---- MODULE Spec2Model ----
(***************************************************************************)
(* Lease fact extraction service (app/main.py): the upload and extraction  *)
(* endpoints, the deterministic regex pipeline, the optional LLM fallback   *)
(* with its retry loop, the fact merger and the output formatter.           *)
(*                                                                          *)
(* Text.  A Python str is a sequence of atoms.  An atom is either one       *)
(* non-word character (" ", "\n", ",", ".", ":", "-", "$", "#", "/", "%",   *)
(* ";"), one digit, or a run of letters written in its canonical case (all  *)
(* matching in the source is case-insensitive).  Adjacent atoms are         *)
(* adjacent characters: "4B" is <<"4", "B">>, "St." is <<"St", ".">>.       *)
(* Python's None is the value None below, distinct from every str; the      *)
(* empty str is <<>>.                                                       *)
(***************************************************************************)
EXTENDS Integers, Sequences, FiniteSets, TLC

VARIABLES
    text,           \* extraction run: the document text
    pc,             \* extraction run: position in _extract_lease_facts_from_text
    address,        \* extraction run: local `address` of _extract_address_and_suite
    suite,          \* extraction run: local `suite` of _extract_address_and_suite
    facts,          \* extraction run: the record returned by the pipeline
    primary,        \* merger/formatter run: first argument
    secondary,      \* merger/formatter run: second argument
    fpc,            \* merger/formatter run: position
    merged,         \* merger/formatter run: _merge_facts(primary, secondary)
    formatted,      \* merger/formatter run: _format_facts_output(primary)
    reformatted,    \* merger/formatter run: _format_facts_output(formatted)
    endpoint,       \* request: which handler serves it
    filename,       \* request: file.filename
    content_type,   \* request: file.content_type
    rpc,            \* request: position in the handler
    status,         \* request: HTTP status of the response (0 while running)
    saved,          \* request: whether the upload was written to disk
    looks_pdf,      \* request: is_probably_pdf(first_bytes), once peeked
    regex_facts,    \* request: the deterministic record
    llm_facts,      \* request: the fallback record
    attempts,       \* request: calls of _call_openai_json made by tenacity
    llm_outcome,    \* request: how the fallback ended
    body            \* request: the JSON body of the response

vars == <<text, pc, address, suite, facts, primary, secondary, fpc, merged, formatted, reformatted, endpoint, filename, content_type, rpc, status, saved, looks_pdf, regex_facts, llm_facts, attempts, llm_outcome, body>>

textVars == <<text, pc, address, suite, facts>>
factVars == <<primary, secondary, fpc, merged, formatted, reformatted>>
reqVars == <<endpoint, filename, content_type, rpc, status, saved, looks_pdf, regex_facts, llm_facts, attempts, llm_outcome, body>>

----------------------------------------------------------------------------
(* Values and character classes *)

None == <<"<None>">>

\* Python truthiness of an Optional[str]: None and "" are falsy.
Truthy(v) == v # None /\ v # <<>>

NL == "\n"

Digits == {"0", "1", "2", "3", "4", "5", "6", "7", "8", "9"}

NonWordChars == {" ", NL, ",", ".", ":", "-", "$", "#", "/", "%", ";"}

\* \d
IsDigit(a) == a \in Digits

\* \s
IsSpace(a) == a \in {" ", NL}

\* \w
IsWordCh(a) == a \notin NonWordChars

\* [^\n\r]
NotNewline(a) == a # NL

\* [\w\-]
IsSuiteCh(a) == IsWordCh(a) \/ a = "-"

\* [\d,\.]
IsNumCh(a) == IsDigit(a) \/ a \in {",", "."}

\* [\d,]
IsAmountCh(a) == IsDigit(a) \/ a = ","

\* [^\d]
NotDigit(a) == ~IsDigit(a)

\* \b between position i-1 and position i of s (the ends count as non-word)
WordBoundary(s, i) ==
    LET before == i > 1 /\ i - 1 <= Len(s) /\ IsWordCh(s[i - 1])
        after == i >= 1 /\ i <= Len(s) /\ IsWordCh(s[i])
    IN before # after

SetMin(S) == CHOOSE x \in S : \A y \in S : x <= y

SetMax(S) == CHOOSE x \in S : \A y \in S : x >= y

\* s[i:] in Python terms (1-based i)
From(s, i) == SubSeq(s, i, Len(s))

\* index of the last atom of the maximal run of P-atoms starting at i (i - 1 when the run is empty)
RunEnd(s, i, P(_)) ==
    LET stops == {j \in i..Len(s) : ~P(s[j])}
    IN IF stops = {} THEN Len(s) ELSE SetMin(stops) - 1

\* position reached by a greedy \s* starting at i
SkipWs(s, i) == RunEnd(s, i, IsSpace) + 1

\* str.strip(chars)
StripChars(s, chars) ==
    LET keep == {i \in 1..Len(s) : s[i] \notin chars}
    IN IF keep = {} THEN <<>> ELSE SubSeq(s, SetMin(keep), SetMax(keep))

\* str.strip()
Strip(s) == StripChars(s, {" ", NL})

\* str.splitlines()
RECURSIVE SplitLines(_)
SplitLines(s) ==
    IF s = <<>> THEN <<>>
    ELSE LET nls == {i \in 1..Len(s) : s[i] = NL}
         IN IF nls = {} THEN <<s>>
            ELSE <<SubSeq(s, 1, SetMin(nls) - 1)>> \o SplitLines(From(s, SetMin(nls) + 1))

\* the tail "\s*(.+)" of a label pattern tried at position q, then .strip():
\* the greedy \s* runs over spaces and line breaks; when nothing follows it,
\* it gives characters back until (.+) can take a run of spaces.
RestOfLine(s, q) ==
    LET k == SkipWs(s, q)
        back == {p \in q..Len(s) : s[p] = " "}
    IN IF k <= Len(s) THEN Strip(SubSeq(s, k, RunEnd(s, k, NotNewline)))
       ELSE IF back # {} THEN <<>>
       ELSE None

\* first index in `starts` (ascending) at which At(i) matched, as _first_match / re.search do
FirstHit(starts, At(_)) ==
    LET hits == {i \in starts : At(i) # None}
    IN IF hits = {} THEN None ELSE At(SetMin(hits))

----------------------------------------------------------------------------
(* _extract_address_and_suite *)

SuiteMarkers == {"Suite", "Ste", "#"}

\* r"(?:Suite|Ste\.?|#)\s*([\w\-]+)" tried at position i of s:
\* [first, last] of group 1, or None
SuiteAt(s, i) ==
    IF i > Len(s) \/ s[i] \notin SuiteMarkers THEN None
    ELSE LET e == IF s[i] = "Ste" /\ i + 1 <= Len(s) /\ s[i + 1] = "." THEN i + 2 ELSE i + 1
             k == SkipWs(s, e)
         IN IF k <= Len(s) /\ IsSuiteCh(s[k]) THEN <<k, RunEnd(s, k, IsSuiteCh)>> ELSE None

\* re.search of the suite pattern in s; group(1).strip(), or None
SuiteSearch(s) ==
    LET hits == {i \in 1..Len(s) : SuiteAt(s, i) # None}
    IN IF hits = {} THEN None
       ELSE LET g == SuiteAt(s, SetMin(hits)) IN Strip(SubSeq(s, g[1], g[2]))

\* re.sub(r"(?:,?\s*)(?:Suite|Ste\.?|#)\s*[\w\-]+", "", s): every match, left to
\* right, is removed; a match starts at the comma or at the first blank before
\* its marker.
RECURSIVE RemoveSuites(_)
RemoveSuites(s) ==
    LET hits == {i \in 1..Len(s) : SuiteAt(s, i) # None}
    IN IF hits = {} THEN s
       ELSE LET i == SetMin(hits)
                blanks == {w \in 1..i : \A j \in w..(i - 1) : IsSpace(s[j])}
                w == SetMin(blanks)
                start == IF w > 1 /\ s[w - 1] = "," THEN w - 1 ELSE w
            IN SubSeq(s, 1, start - 1) \o RemoveSuites(From(s, SuiteAt(s, i)[2] + 1))

\* the label alternation "Premises(?:\s*Address)?|Property(?:\s*Address)?|Address"
\* at i: the positions just past it, longest first
LabelEnds(s, i) ==
    IF s[i] = "Address" THEN <<i + 1>>
    ELSE IF s[i] \in {"Premises", "Property"}
         THEN LET k == SkipWs(s, i + 1)
              IN IF k <= Len(s) /\ s[k] = "Address" THEN <<k + 1, i + 1>> ELSE <<i + 1>>
    ELSE <<>>

\* after a label ending before e: r"\s*(?:\:|\-)\s*(.+)", group(1).strip() or None
AfterLabel(s, e) ==
    LET k == SkipWs(s, e)
    IN IF k <= Len(s) /\ s[k] \in {":", "-"} THEN RestOfLine(s, k + 1) ELSE None

\* the label-based pattern (line 112) tried at position i
LabelAt(s, i) ==
    IF ~WordBoundary(s, i) THEN None
    ELSE LET ends == LabelEnds(s, i)
             ok == {n \in 1..Len(ends) : AfterLabel(s, ends[n]) # None}
         IN IF ok = {} THEN None ELSE AfterLabel(s, ends[SetMin(ok)])

\* 1) Label-based capture (lines 111-120): the new <<address, suite>>
LabelStrategy(t, a, su) ==
    LET line == FirstHit(1..Len(t), LAMBDA i : LabelAt(t, i))
    IN IF line = None THEN <<a, su>>
       ELSE IF SuiteSearch(line) # None
            THEN <<StripChars(RemoveSuites(line), {" ", ",", ";", "-"}), SuiteSearch(line)>>
            ELSE <<line, su>>

StreetSuffixes == {"Street", "Avenue", "Road", "Boulevard", "Lane", "Drive", "Court", "Way", "Terrace"}

StreetAbbrevs == {"St", "Ave", "Rd", "Blvd", "Ln", "Dr", "Ct", "Ter"}

\* the street pattern (line 124) on one line: \s*, one to six digits, \s+, at
\* least one character, a street suffix followed by a word boundary
StreetLine(l) ==
    LET d0 == SkipWs(l, 1)
        d1 == RunEnd(l, d0, IsDigit)
        n == d1 - d0 + 1
        suffixAt(j) ==
            \/ l[j] \in StreetSuffixes /\ WordBoundary(l, j + 1)
            \/ l[j] \in StreetAbbrevs /\ j + 1 <= Len(l) /\ l[j + 1] = "." /\ WordBoundary(l, j + 2)
    IN /\ n >= 1
       /\ n <= 6
       /\ d1 + 1 <= Len(l)
       /\ IsSpace(l[d1 + 1])
       /\ \E j \in (d1 + 3)..Len(l) : suffixAt(j)

\* 2) Street-pattern lines if still missing (lines 122-136)
StreetStrategy(t, a, su) ==
    IF Truthy(a) THEN <<a, su>>
    ELSE LET lines == [n \in 1..Len(SplitLines(t)) |-> Strip(SplitLines(t)[n])]
             found == {idx \in 1..Len(lines) : StreetLine(lines[idx])}
         IN IF found = {} THEN <<a, su>>
            ELSE LET idx == SetMin(found)
                     l == lines[idx]
                     here == SuiteSearch(l)
                     below == IF idx + 1 <= Len(lines) THEN SuiteSearch(lines[idx + 1]) ELSE None
                     s == IF here # None THEN here ELSE below
                 IN <<StripChars(l, {" ", ",", ";", "-"}), IF s # None THEN s ELSE su>>

\* 3) Global suite search as last resort (lines 138-142)
GlobalSuiteStrategy(t, a, su) ==
    IF Truthy(su) THEN <<a, su>>
    ELSE IF SuiteSearch(t) # None THEN <<a, SuiteSearch(t)>>
    ELSE <<a, su>>

_extract_address_and_suite(t) ==
    LET s1 == LabelStrategy(t, None, None)
        s2 == StreetStrategy(t, s1[1], s1[2])
    IN GlobalSuiteStrategy(t, s2[1], s2[2])

----------------------------------------------------------------------------
(* _extract_lease_facts_from_text: the field extractors *)

\* r"\b<label>\s*:\s*(.+)" tried at i (Tenant, Landlord; lines 149-150)
PartyAt(s, i, label) ==
    IF s[i] # label \/ ~WordBoundary(s, i) THEN None
    ELSE LET k == SkipWs(s, i + 1)
         IN IF k <= Len(s) /\ s[k] = ":" THEN RestOfLine(s, k + 1) ELSE None

Party(s, label) == FirstHit(1..Len(s), LAMBDA i : PartyAt(s, i, label))

Qualifiers == {"Rentable", "Leasable", "Approx", "Total"}

\* "(?:Square\s*Feet|Sq\.?\s*Ft\.?|SF)" at u: the position just past it, 0 when it does not match
UnitEnd(s, u) ==
    IF s[u] = "SF" THEN u + 1
    ELSE IF s[u] = "Square"
         THEN LET k == SkipWs(s, u + 1)
              IN IF k <= Len(s) /\ s[k] = "Feet" THEN k + 1 ELSE 0
    ELSE IF s[u] = "Sq"
         THEN LET d == IF u + 1 <= Len(s) /\ s[u + 1] = "." THEN u + 2 ELSE u + 1
                  k == SkipWs(s, d)
              IN IF k <= Len(s) /\ s[k] = "Ft" THEN k + 1 ELSE 0
    ELSE 0

\* "\b(?:Rentable|Leasable|Approx\.?|Total)?\s*" can end right before u
UnitStartOk(s, u) ==
    \/ WordBoundary(s, u)
    \/ u > 1 /\ s[u - 1] \in Qualifiers /\ WordBoundary(s, u - 1)

\* the square-footage pattern (line 156) with its unit at u: group(1).strip() or None.
\* [^\d]* runs to the first digit; (\d[\d,\.]+) needs two characters or more.
SquareFeetAt(s, u) ==
    IF UnitEnd(s, u) = 0 \/ ~UnitStartOk(s, u) THEN None
    ELSE LET f == RunEnd(s, UnitEnd(s, u), NotDigit) + 1
             r == RunEnd(s, f, IsNumCh)
         IN IF f <= Len(s) /\ r >= f + 1 THEN Strip(SubSeq(s, f, r)) ELSE None

\* re.sub(r"[^\d\.]", "", raw)
NumericNormalize(raw) == SelectSeq(raw, LAMBDA a : IsDigit(a) \/ a = ".")

\* lines 156-157
SquareFeet(s) ==
    LET square_feet_raw == FirstHit(1..Len(s), LAMBDA u : SquareFeetAt(s, u))
    IN IF Truthy(square_feet_raw) THEN NumericNormalize(square_feet_raw) ELSE None

\* r"\b(?:Lease\s*)?<words>\s*Date\s*:?\s*([^\n\r]+)" with its first word at i
\* (lines 160-161); words is the set of first words (Commencement; Expiration, Expiry)
DateRawAt(s, i, words) ==
    LET startOk == WordBoundary(s, i) \/ (i > 1 /\ s[i - 1] = "Lease" /\ WordBoundary(s, i - 1))
        k == SkipWs(s, i + 1)
        c == SkipWs(s, k + 1)
        colon == c <= Len(s) /\ s[c] = ":"
        rest == RestOfLine(s, IF colon THEN c + 1 ELSE c)
    IN IF s[i] \notin words \/ ~startOk \/ k > Len(s) THEN None
       ELSE IF s[k] # "Date" THEN None
       ELSE IF rest # None THEN rest
       ELSE IF colon THEN <<":">>
       ELSE None

Months == [January |-> <<"0", "1">>, March |-> <<"0", "3">>, December |-> <<"1", "2">>]

\* _normalize_date (lines 89-98): dateutil's fuzzy parse of "<Month> <day>, <year>"
\* formatted "%d-%m-%Y"; None when no date is recognised
_normalize_date(value) ==
    LET at(i) ==
            LET d0 == SkipWs(value, i + 1)
                d1 == RunEnd(value, d0, IsDigit)
                y0 == SkipWs(value, IF d1 + 1 <= Len(value) /\ value[d1 + 1] = "," THEN d1 + 2 ELSE d1 + 1)
                y1 == RunEnd(value, y0, IsDigit)
                day == IF d1 = d0 THEN <<"0", value[d0]>> ELSE SubSeq(value, d0, d1)
            IN IF value[i] \in DOMAIN Months /\ d1 - d0 \in {0, 1} /\ y0 > d1 + 1 /\ y1 - y0 = 3
               THEN day \o <<"-">> \o Months[value[i]] \o <<"-">> \o SubSeq(value, y0, y1)
               ELSE None
    IN FirstHit(1..Len(value), at)

DateField(s, words) ==
    LET raw == FirstHit(1..Len(s), LAMBDA i : DateRawAt(s, i, words))
    IN IF Truthy(raw) THEN _normalize_date(raw) ELSE None

\* "\b<w1>\s+<w2>" at i: the position just past it, 0 when it does not match
TwoWordLabelEnd(s, i, w1, w2) ==
    IF s[i] # w1 \/ ~WordBoundary(s, i) THEN 0
    ELSE LET k == SkipWs(s, i + 1)
         IN IF k > i + 1 /\ k <= Len(s) /\ s[k] = w2 THEN k + 1 ELSE 0

\* after a two-word label ending before e: "\s*:?\s*", the position reached
AfterOptionalColon(s, e) ==
    LET a == SkipWs(s, e)
    IN IF a <= Len(s) /\ s[a] = ":" THEN SkipWs(s, a + 1) ELSE a

\* r"\bProportionate\s+Share\s*:?\s*(\d{1,2}(?:\.\d+)?\s*%)" at i (line 166)
ShareAt(s, i) ==
    LET e == TwoWordLabelEnd(s, i, "Proportionate", "Share")
        d == AfterOptionalColon(s, e)
        r == RunEnd(s, d, IsDigit)
        f == IF r + 2 <= Len(s) /\ s[r + 1] = "." /\ IsDigit(s[r + 2]) THEN RunEnd(s, r + 2, IsDigit) ELSE r
        pct(q) == SkipWs(s, q + 1) <= Len(s) /\ s[SkipWs(s, q + 1)] = "%"
    IN IF e = 0 \/ r - d + 1 \notin {1, 2} THEN None
       ELSE IF pct(f) THEN Strip(SubSeq(s, d, SkipWs(s, f + 1)))
       ELSE None

\* r"\bBase\s+Year\s*:?\s*(\d{4})\b" at i (line 169)
BaseYearAt(s, i) ==
    LET e == TwoWordLabelEnd(s, i, "Base", "Year")
        d == AfterOptionalColon(s, e)
    IN IF e # 0 /\ RunEnd(s, d, IsDigit) >= d + 3 /\ WordBoundary(s, d + 4)
       THEN SubSeq(s, d, d + 3)
       ELSE None

\* r"\bSecurity\s+Deposit\s*:?\s*(?:\$\s*)?([\d,]+(?:\.\d{2})?)\b" at i (line 172):
\* the greedy run of digits and commas, with two decimals when they follow and end
\* at a word boundary; otherwise the longest prefix of the run that ends at one
AmountAt(s, i) ==
    LET e == TwoWordLabelEnd(s, i, "Security", "Deposit")
        c == AfterOptionalColon(s, e)
        d == IF c <= Len(s) /\ s[c] = "$" THEN SkipWs(s, c + 1) ELSE c
        r == RunEnd(s, d, IsAmountCh)
        cents == r + 3 <= Len(s) /\ s[r + 1] = "." /\ IsDigit(s[r + 2]) /\ IsDigit(s[r + 3]) /\ WordBoundary(s, r + 4)
        ends == {q \in d..r : WordBoundary(s, q + 1)}
    IN IF e = 0 \/ r < d THEN None
       ELSE IF cents THEN Strip(SubSeq(s, d, r + 3))
       ELSE IF ends # {} THEN Strip(SubSeq(s, d, SetMax(ends)))
       ELSE None

\* "(?:None|N/A|No\s+Deposit)" at n
NegationAt(s, n) ==
    \/ s[n] = "None"
    \/ n + 2 <= Len(s) /\ s[n] = "N" /\ s[n + 1] = "/" /\ s[n + 2] = "A"
    \/ s[n] = "No" /\ SkipWs(s, n + 1) > n + 1 /\ SkipWs(s, n + 1) <= Len(s) /\ s[SkipWs(s, n + 1)] = "Deposit"

\* none_flag (line 175): r"\bSecurity\s+Deposit\b[^\n\r]*(?:None|N/A|No\s+Deposit)" matches
NoneFlag(s) ==
    \E i \in 1..Len(s) :
        LET e == TwoWordLabelEnd(s, i, "Security", "Deposit")
        IN /\ e # 0
           /\ WordBoundary(s, e)
           /\ \E n \in e..Len(s) : NegationAt(s, n) /\ \A j \in e..(n - 1) : NotNewline(s[j])

\* the deposit rule consulting the negation test before the amount
SecurityDeposit_flagFirst(s) ==
    IF NoneFlag(s) THEN <<"None">>
    ELSE FirstHit(1..Len(s), LAMBDA i : AmountAt(s, i))

\* lines 171-176
SecurityDeposit(s) ==
    LET security_deposit == FirstHit(1..Len(s), LAMBDA i : AmountAt(s, i))
    IN IF Truthy(security_deposit) THEN security_deposit
       ELSE IF NoneFlag(s) THEN <<"None">>
       ELSE None

\* the combination without the "Suite " prefix in the suite-only branch
CombinedAddr_bareSuite(a, su) ==
    IF Truthy(a) /\ Truthy(su) THEN a \o <<" ", "Suite", " ">> \o su
    ELSE IF Truthy(a) THEN a
    ELSE IF Truthy(su) THEN su
    ELSE None

\* lines 178-184
CombinedAddr(a, su) ==
    IF Truthy(a) /\ Truthy(su) THEN a \o <<" ", "Suite", " ">> \o su
    ELSE IF Truthy(a) THEN a
    ELSE IF Truthy(su) THEN <<"Suite", " ">> \o su
    ELSE None

\* the record returned at lines 186-198, given the address and suite found
FactsRecord(t, a, su) ==
    [tenant_name |-> Party(t, "Tenant"),
     landlord_name |-> Party(t, "Landlord"),
     property_address |-> a,
     suite |-> su,
     property_address_and_suite |-> CombinedAddr(a, su),
     total_square_feet |-> SquareFeet(t),
     lease_commencement_date |-> DateField(t, {"Commencement"}),
     lease_expiration_date |-> DateField(t, {"Expiration", "Expiry"}),
     proportionate_share |-> FirstHit(1..Len(t), LAMBDA i : ShareAt(t, i)),
     base_year |-> FirstHit(1..Len(t), LAMBDA i : BaseYearAt(t, i)),
     security_deposit |-> IF Truthy(SecurityDeposit(t)) THEN SecurityDeposit(t) ELSE None]

_extract_lease_facts_from_text(t) ==
    FactsRecord(t, _extract_address_and_suite(t)[1], _extract_address_and_suite(t)[2])

----------------------------------------------------------------------------
(* Inputs *)

\* longest document, in lines
MaxLines == 2

\* longest document handed to the extraction endpoint, in lines
MaxDocLines == 1

\* the lines documents are made of
Lines ==
    {<<"Address", ":", " ", "5", " ", "Main", " ", "Street", ",", " ", "Suite", " ", "4", "B">>,
     <<"Address", ":", " ", "Suite", " ", "4", "B">>,
     <<"Address", ":">>,
     <<"Premises", " ", "-", " ">>,
     <<"9", " ", "Main", " ", "Street", ",", " ", "Ste", ".", " ", "7">>,
     <<"9", " ", "Main", " ", "Street">>,
     <<"Suite", " ", "7">>,
     <<"Tenant", ":", " ", "Acme">>,
     <<"Tenant", ":", " ">>,
     <<"Landlord", ":", " ", "Acme">>,
     <<"Total", " ", "Square", " ", "Feet", ":", " ", "1", "2", ",", "3", "4", "5">>,
     <<"SF", ":", " ", "5">>,
     <<"Security", " ", "Deposit", ":", " ", "$", "1", ",", "2", "3", "4", ".", "5", "6">>,
     <<"Security", " ", "Deposit", ":", " ", "None">>,
     <<"Security", " ", "Deposit", ":", " ", "5", "0", "0">>,
     <<"Security", " ", "Deposit", ":", " ", "waived">>,
     <<"No", " ", "Deposit">>,
     <<"Commencement", " ", "Date", ":", " ", "March", " ", "1", ",", " ", "2", "0", "2", "3">>,
     <<"Expiry", " ", "Date", ":", " ", "soon">>,
     <<"Proportionate", " ", "Share", ":", " ", "5", ".", "5", "%">>,
     <<"Base", " ", "Year", ":", " ", "2", "0", "2", "3">>,
     <<>>}

\* "\n".join(ls)
RECURSIVE JoinLines(_)
JoinLines(ls) ==
    IF ls = <<>> THEN <<>>
    ELSE IF Len(ls) = 1 THEN ls[1]
    ELSE ls[1] \o <<NL>> \o JoinLines(Tail(ls))

TextsOf(n) == UNION {{JoinLines(ls) : ls \in [1..m -> Lines]} : m \in 0..n}

Texts == TextsOf(MaxLines)

DocTexts == TextsOf(MaxDocLines)

----------------------------------------------------------------------------
(* The schema, the output formatter and the merger *)

\* the keys of LEASE_FACTS_SCHEMA in source order (lines 202-212)
SchemaKeys == <<"tenant_name", "landlord_name", "property_address", "suite", "property_address_and_suite", "total_square_feet", "lease_commencement_date", "lease_expiration_date", "proportionate_share", "base_year", "security_deposit">>

\* the schema with "" as its default value instead of None
LEASE_FACTS_SCHEMA_emptyStrings == [k \in {SchemaKeys[n] : n \in 1..Len(SchemaKeys)} |-> <<>>]

LEASE_FACTS_SCHEMA == [k \in {SchemaKeys[n] : n \in 1..Len(SchemaKeys)} |-> None]

\* the dict {}
EmptyDict == <<>>

\* dict.get(k)
Get(d, k) == IF k \in DOMAIN d THEN d[k] ELSE None

\* Python's `a or b` on Optional[str]
Or(a, b) == IF Truthy(a) THEN a ELSE b

\* the formatter testing `v is not None` only, so that "" is kept
_format_facts_output_keepsEmpty(f) ==
    [k \in DOMAIN LEASE_FACTS_SCHEMA |->
        IF k \in DOMAIN f THEN f[k] ELSE LEASE_FACTS_SCHEMA[k]]

_format_facts_output(f) ==
    [k \in DOMAIN LEASE_FACTS_SCHEMA |->
        IF k \in DOMAIN f
        THEN (IF f[k] \notin {<<>>, None} THEN f[k] ELSE None)
        ELSE LEASE_FACTS_SCHEMA[k]]

\* the merger with its operands swapped: `secondary.get(key) or primary.get(key)`
_merge_facts_secondaryFirst(p, s) == [key \in DOMAIN LEASE_FACTS_SCHEMA |-> Or(Get(s, key), Get(p, key))]

_merge_facts(p, s) == [key \in DOMAIN LEASE_FACTS_SCHEMA |-> Or(Get(p, key), Get(s, key))]

\* number of schema keys whose value varies in the mappings given to the merger and the formatter
MaxKeys == 2

\* the keys of those mappings: the first MaxKeys schema keys and one key outside the schema
InputKeys == {SchemaKeys[n] : n \in 1..MaxKeys} \cup {"notes"}

\* every dict over a subset of the keys K with values in V
Dicts(K, V) == UNION {[D -> V] : D \in SUBSET K}

\* first arguments: values None, "" and "A"
PrimaryDicts == Dicts(InputKeys, {None, <<>>, <<"A">>})

\* second arguments: values None, "" and "B"
SecondaryDicts == Dicts(InputKeys, {None, <<>>, <<"B">>})

----------------------------------------------------------------------------
(* Requests *)

\* file.filename: the name the multipart part declares, which may be empty
Filenames == {<<>>, <<"lease", ".", "pdf">>, <<"LEASE", ".", "PDF">>, <<"notes", ".", "txt">>}

\* file.content_type: absent or a media type
ContentTypes == {None, <<"application/pdf">>, <<"text/plain">>}

\* str.lower()
Lower(s) == [i \in 1..Len(s) |-> IF s[i] = "PDF" THEN "pdf" ELSE IF s[i] = "LEASE" THEN "lease" ELSE s[i]]

\* str.endswith(".pdf")
EndsWithPdf(s) == Len(s) >= 2 /\ SubSeq(s, Len(s) - 1, Len(s)) = <<".", "pdf">>

\* lines 43-46 and 278-280: the media-type and extension test, with the handler's default name
NotPdf(fname, ctype, default) ==
    LET ct == Or(ctype, <<>>)
        original_filename == Or(fname, default)
    IN ~EndsWithPdf(Lower(original_filename)) /\ ct # <<"application/pdf">>

\* stop_after_attempt(3), line 239
MaxAttempts == 3

\* the stop condition letting one more call through
StopAfterAttempt_oneMore(n) == n > MaxAttempts

\* tenacity's stop condition after n calls
StopAfterAttempt(n) == n >= MaxAttempts

\* JSON objects the model may answer with (line 255)
RawReplies ==
    {EmptyDict,
     [suite |-> <<"7">>],
     [property_address |-> <<"9", " ", "Main", " ", "Street">>],
     [property_address_and_suite |-> <<"Elsewhere">>],
     [tenant_name |-> <<"Acme">>, suite |-> <<>>, notes |-> <<"x">>],
     [property_address |-> <<"9", " ", "Main", " ", "Street">>, suite |-> <<"7">>, property_address_and_suite |-> <<"9", " ", "Main", " ", "Street", " ", "Suite", " ", "7">>]}

----------------------------------------------------------------------------
(* The deterministic pipeline over one document, strategy by strategy *)

TextIdle == text = <<>> /\ pc = "idle" /\ address = None /\ suite = None /\ facts = EmptyDict

FactIdle == primary = EmptyDict /\ secondary = EmptyDict /\ fpc = "idle" /\ merged = EmptyDict /\ formatted = EmptyDict /\ reformatted = EmptyDict

ReqIdle == endpoint = "none" /\ filename = None /\ content_type = None /\ rpc = "idle" /\ status = 0 /\ saved = FALSE /\ looks_pdf = FALSE /\ regex_facts = EmptyDict /\ llm_facts = EmptyDict /\ attempts = <<>> /\ llm_outcome = "none" /\ body = EmptyDict

\* lines 107-109
TextInit ==
    /\ text \in Texts
    /\ pc = "label"
    /\ address = None
    /\ suite = None
    /\ facts = EmptyDict
    /\ FactIdle
    /\ ReqIdle

\* lines 111-120
RunLabel ==
    /\ pc = "label"
    /\ address' = LabelStrategy(text, address, suite)[1]
    /\ suite' = LabelStrategy(text, address, suite)[2]
    /\ pc' = "street"
    /\ UNCHANGED <<text, facts, factVars, reqVars>>

\* lines 122-136
RunStreet ==
    /\ pc = "street"
    /\ address' = StreetStrategy(text, address, suite)[1]
    /\ suite' = StreetStrategy(text, address, suite)[2]
    /\ pc' = "global"
    /\ UNCHANGED <<text, facts, factVars, reqVars>>

\* lines 138-144
RunGlobal ==
    /\ pc = "global"
    /\ address' = GlobalSuiteStrategy(text, address, suite)[1]
    /\ suite' = GlobalSuiteStrategy(text, address, suite)[2]
    /\ pc' = "fields"
    /\ UNCHANGED <<text, facts, factVars, reqVars>>

\* lines 147-198, once address and suite are back
Assemble ==
    /\ pc = "fields"
    /\ facts' = FactsRecord(text, address, suite)
    /\ pc' = "done"
    /\ UNCHANGED <<text, address, suite, factVars, reqVars>>

TextNext == RunLabel \/ RunStreet \/ RunGlobal \/ Assemble

SpecText == TextInit /\ [][TextNext]_vars

----------------------------------------------------------------------------
(* The merger and the formatter on arbitrary dicts *)

FactInit ==
    /\ primary \in PrimaryDicts
    /\ secondary \in SecondaryDicts
    /\ fpc = "start"
    /\ merged = EmptyDict
    /\ formatted = EmptyDict
    /\ reformatted = EmptyDict
    /\ TextIdle
    /\ ReqIdle

\* lines 262-266
Merge ==
    /\ fpc = "start"
    /\ merged' = _merge_facts(primary, secondary)
    /\ fpc' = "merged"
    /\ UNCHANGED <<primary, secondary, formatted, reformatted, textVars, reqVars>>

\* lines 216-219, on the first dict
Format ==
    /\ fpc = "merged"
    /\ formatted' = _format_facts_output(primary)
    /\ fpc' = "formatted"
    /\ UNCHANGED <<primary, secondary, merged, reformatted, textVars, reqVars>>

\* lines 216-219, on its own result
Reformat ==
    /\ fpc = "formatted"
    /\ reformatted' = _format_facts_output(formatted)
    /\ fpc' = "done"
    /\ UNCHANGED <<primary, secondary, merged, formatted, textVars, reqVars>>

FactNext == Merge \/ Format \/ Reformat

SpecFacts == FactInit /\ [][FactNext]_vars

----------------------------------------------------------------------------
(* One request to /upload-pdf or /extract-lease-facts *)

ReqInit ==
    /\ endpoint \in {"upload", "extract"}
    /\ filename \in Filenames
    /\ content_type \in ContentTypes
    /\ rpc = "start"
    /\ status = 0
    /\ saved = FALSE
    /\ looks_pdf = FALSE
    /\ regex_facts = EmptyDict
    /\ llm_facts = EmptyDict
    /\ attempts = <<>>
    /\ llm_outcome = "none"
    /\ body = EmptyDict
    /\ TextIdle
    /\ FactIdle

\* upload_pdf, lines 43-47
UploadValidate ==
    /\ endpoint = "upload"
    /\ rpc = "start"
    /\ IF NotPdf(filename, content_type, <<"uploaded", ".", "pdf">>)
       THEN status' = 400 /\ rpc' = "done"
       ELSE status' = status /\ rpc' = "peek"
    /\ UNCHANGED <<endpoint, filename, content_type, saved, looks_pdf, regex_facts, llm_facts, attempts, llm_outcome, body, textVars, factVars>>

\* upload_pdf, lines 49-57: the first five bytes are read and nothing is done with the answer
UploadPeek ==
    /\ endpoint = "upload"
    /\ rpc = "peek"
    /\ \E is_probably_pdf \in BOOLEAN : looks_pdf' = is_probably_pdf
    /\ rpc' = "store"
    /\ UNCHANGED <<endpoint, filename, content_type, status, saved, regex_facts, llm_facts, attempts, llm_outcome, body, textVars, factVars>>

\* upload_pdf, lines 59-86
UploadStore ==
    /\ endpoint = "upload"
    /\ rpc = "store"
    /\ saved' = TRUE
    /\ status' = 200
    /\ body' = [message |-> <<"PDF uploaded successfully">>,
                original_filename |-> Or(filename, <<"uploaded", ".", "pdf">>),
                content_type |-> Or(content_type, <<>>)]
    /\ rpc' = "done"
    /\ UNCHANGED <<endpoint, filename, content_type, looks_pdf, regex_facts, llm_facts, attempts, llm_outcome, textVars, factVars>>

\* extract_lease_facts, lines 278-281
ExtractValidate ==
    /\ endpoint = "extract"
    /\ rpc = "start"
    /\ IF NotPdf(filename, content_type, <<"lease", ".", "pdf">>)
       THEN status' = 400 /\ rpc' = "done"
       ELSE status' = status /\ rpc' = "persist"
    /\ UNCHANGED <<endpoint, filename, content_type, saved, looks_pdf, regex_facts, llm_facts, attempts, llm_outcome, body, textVars, factVars>>

\* extract_lease_facts, lines 283-290
ExtractPersist ==
    /\ endpoint = "extract"
    /\ rpc = "persist"
    /\ saved' = TRUE
    /\ rpc' = "parse"
    /\ UNCHANGED <<endpoint, filename, content_type, status, looks_pdf, regex_facts, llm_facts, attempts, llm_outcome, body, textVars, factVars>>

\* extract_lease_facts, lines 292-300: pdfminer returns the text, which the pipeline of
\* lines 147-198 then works on, or raises; the temporary file is unlinked either way
ExtractParse ==
    /\ endpoint = "extract"
    /\ rpc = "parse"
    /\ saved' = FALSE
    /\ \/ \E t \in DocTexts : text' = t /\ pc' = "label" /\ status' = status /\ rpc' = "regex"
       \/ text' = text /\ pc' = pc /\ status' = 500 /\ rpc' = "done"
    /\ UNCHANGED <<endpoint, filename, content_type, looks_pdf, regex_facts, llm_facts, attempts, llm_outcome, body, address, suite, facts, factVars>>

\* extract_lease_facts, lines 302-307: the deterministic record is back, then the OPENAI_API_KEY test
ExtractRegex ==
    /\ endpoint = "extract"
    /\ rpc = "regex"
    /\ pc = "done"
    /\ regex_facts' = facts
    /\ \E has_key \in BOOLEAN : rpc' = IF has_key THEN "llm" ELSE "merge"
    /\ UNCHANGED <<endpoint, filename, content_type, status, saved, looks_pdf, llm_facts, attempts, llm_outcome, body, textVars, factVars>>

\* one call of _call_openai_json under tenacity's retry (lines 239-259, 308-312):
\* it raises (no SDK, transport or auth error), answers something that is not a
\* JSON object, or answers a JSON object
CallOpenAI ==
    /\ endpoint = "extract"
    /\ rpc = "llm"
    /\ \/ /\ attempts' = Append(attempts, "raised")
          /\ IF StopAfterAttempt(Len(attempts) + 1)
             THEN llm_facts' = EmptyDict /\ llm_outcome' = "exhausted" /\ rpc' = "merge"
             ELSE llm_facts' = llm_facts /\ llm_outcome' = llm_outcome /\ rpc' = rpc
       \/ /\ attempts' = Append(attempts, "returned")
          /\ llm_facts' = LEASE_FACTS_SCHEMA
          /\ llm_outcome' = "invalid"
          /\ rpc' = "merge"
       \/ /\ attempts' = Append(attempts, "returned")
          /\ \E raw \in RawReplies : llm_facts' = _format_facts_output(raw)
          /\ llm_outcome' = "answered"
          /\ rpc' = "merge"
    /\ UNCHANGED <<endpoint, filename, content_type, status, saved, looks_pdf, regex_facts, body, textVars, factVars>>

\* extract_lease_facts, lines 314-316
ExtractMerge ==
    /\ endpoint = "extract"
    /\ rpc = "merge"
    /\ body' = _format_facts_output(_merge_facts(regex_facts, llm_facts))
    /\ status' = 200
    /\ rpc' = "done"
    /\ UNCHANGED <<endpoint, filename, content_type, saved, looks_pdf, regex_facts, llm_facts, attempts, llm_outcome, textVars, factVars>>

ReqNext == UploadValidate \/ UploadPeek \/ UploadStore \/ ExtractValidate \/ ExtractPersist \/ ExtractParse \/ TextNext \/ ExtractRegex \/ CallOpenAI \/ ExtractMerge

SpecReq == ReqInit /\ [][ReqNext]_vars


----------------------------------------------------------------------------
(* Properties *)

\* the eleven canonical keys, as the specification lists them
ElevenKeys == {"tenant_name", "landlord_name", "property_address", "suite", "property_address_and_suite", "total_square_feet", "lease_commencement_date", "lease_expiration_date", "proportionate_share", "base_year", "security_deposit"}

\* C1, as stated: the merged record has exactly the eleven keys and, for each
\* key, holds primary's value when that value is not the missing sentinel None,
\* otherwise secondary's value when that is not None, otherwise None.
C1_MergeAsStated ==
    fpc \in {"merged", "formatted", "done"} =>
        /\ DOMAIN merged = ElevenKeys
        /\ \A k \in ElevenKeys :
            merged[k] = IF Get(primary, k) # None THEN Get(primary, k)
                        ELSE IF Get(secondary, k) # None THEN Get(secondary, k)
                        ELSE None

\* C1, amended: the merged record has exactly the eleven keys and, for each
\* key, holds primary's value when that value is neither None nor the empty
\* string, otherwise secondary's value as it is: None when secondary lacks the
\* key or holds None, the empty string when secondary holds the empty string.
C1_Merge ==
    fpc \in {"merged", "formatted", "done"} =>
        /\ DOMAIN merged = ElevenKeys
        /\ Cardinality(DOMAIN merged) = 11
        /\ \A k \in ElevenKeys :
            /\ Truthy(Get(primary, k)) => merged[k] = Get(primary, k)
            /\ ~Truthy(Get(primary, k)) /\ k \in DOMAIN secondary => merged[k] = secondary[k]
            /\ ~Truthy(Get(primary, k)) /\ k \notin DOMAIN secondary => merged[k] = None

\* C1 witness: a merge in which one key is taken from primary over a present
\* secondary value and another, empty in primary, is filled from secondary
C1_Witness ==
    /\ fpc = "merged"
    /\ \E k \in ElevenKeys : Get(primary, k) = <<"A">> /\ Get(secondary, k) = <<"B">> /\ merged[k] = <<"A">>
    /\ \E k \in ElevenKeys : Get(primary, k) = <<>> /\ Get(secondary, k) = <<"B">> /\ merged[k] = <<"B">>

\* C2: whatever dict is formatted (any subset of the keys, an unknown key,
\* values that are strings, empty strings or None), the result has exactly the
\* eleven canonical keys, every value is None or a non-empty string, a key
\* absent from the input or holding the empty string is None, and the unknown
\* key is not in the result.
C2_FormatShape ==
    fpc \in {"formatted", "done"} =>
        /\ DOMAIN formatted = ElevenKeys
        /\ Cardinality(DOMAIN formatted) = 11
        /\ "notes" \notin DOMAIN formatted
        /\ \A k \in ElevenKeys :
            /\ formatted[k] = None \/ Truthy(formatted[k])
            /\ (k \notin DOMAIN primary \/ Get(primary, k) = <<>>) => formatted[k] = None

\* C2 witness: a formatted dict that had an unknown key, an empty string, a
\* missing canonical key and a non-empty value
C2_Witness ==
    /\ fpc = "formatted"
    /\ "notes" \in DOMAIN primary
    /\ \E k \in ElevenKeys : k \in DOMAIN primary /\ primary[k] = <<>>
    /\ \E k \in ElevenKeys : k \in DOMAIN primary /\ primary[k] = <<"A">> /\ formatted[k] = <<"A">>
    /\ \E k \in ElevenKeys : k \notin DOMAIN primary

\* C3: formatting the formatter's result gives that result back.
C3_FormatIdempotent == fpc = "done" => reformatted = formatted

\* C3 witness: the formatter was applied twice, the first time to a dict with
\* an unknown key, a key missing and an empty string
C3_Witness ==
    /\ fpc = "done"
    /\ "notes" \in DOMAIN primary
    /\ \E k \in ElevenKeys : k \in DOMAIN primary /\ primary[k] = <<>>
    /\ \E k \in ElevenKeys : k \notin DOMAIN primary
    /\ \E k \in ElevenKeys : Truthy(reformatted[k])

\* C4, as stated: in the pipeline's record, property_address_and_suite is
\* "{address} Suite {suite}" when both parts are present, the address itself
\* when only the address is, the suite itself when only the suite is, and
\* missing when neither is.
C4_CombinedAsStated ==
    pc = "done" =>
        facts.property_address_and_suite =
            IF Truthy(facts.property_address) /\ Truthy(facts.suite)
            THEN facts.property_address \o <<" ", "Suite", " ">> \o facts.suite
            ELSE IF Truthy(facts.property_address) THEN facts.property_address
            ELSE IF Truthy(facts.suite) THEN facts.suite
            ELSE None

\* C4, amended: in the pipeline's record, property_address_and_suite is
\* "{address} Suite {suite}" when both parts are present, the address itself
\* when only the address is, "Suite {suite}" when only the suite is, and
\* missing when neither is; a part is present when it is neither None nor
\* the empty string.
C4_Combined ==
    pc = "done" =>
        /\ Truthy(facts.property_address) /\ Truthy(facts.suite) =>
            facts.property_address_and_suite = facts.property_address \o <<" ", "Suite", " ">> \o facts.suite
        /\ Truthy(facts.property_address) /\ ~Truthy(facts.suite) =>
            facts.property_address_and_suite = facts.property_address
        /\ ~Truthy(facts.property_address) /\ Truthy(facts.suite) =>
            facts.property_address_and_suite = <<"Suite", " ">> \o facts.suite
        /\ ~Truthy(facts.property_address) /\ ~Truthy(facts.suite) =>
            facts.property_address_and_suite = None

\* C4 witness: a record with a suite and no address
C4_Witness ==
    /\ pc = "done"
    /\ ~Truthy(facts.property_address)
    /\ Truthy(facts.suite)
    /\ facts.property_address_and_suite = <<"Suite", " ">> \o facts.suite

\* C5: in the record the extraction endpoint answers with,
\* property_address_and_suite is the documented function of that record's
\* property_address and suite (under either reading of the suite-only case).
C5_DerivedFieldLaw ==
    endpoint = "extract" /\ rpc = "done" /\ status = 200 =>
        LET a == body.property_address
            su == body.suite
            both == a \o <<" ", "Suite", " ">> \o su
        IN body.property_address_and_suite \in
            IF Truthy(a) /\ Truthy(su) THEN {both}
            ELSE IF Truthy(a) THEN {a}
            ELSE IF Truthy(su) THEN {su, <<"Suite", " ">> \o su}
            ELSE {None}

\* C6: the pipeline's security_deposit is the literal "None" exactly when no
\* amount is matched after a Security Deposit label and a label is followed on
\* its line by a negation phrase; a matched amount is the value; a text that
\* never says Security has no security_deposit.
C6_SecurityDepositNone ==
    pc = "done" =>
        LET amount == FirstHit(1..Len(text), LAMBDA i : AmountAt(text, i))
        IN /\ facts.security_deposit = <<"None">> <=> (amount = None /\ NoneFlag(text))
           /\ amount # None => facts.security_deposit = amount
           /\ (\A i \in 1..Len(text) : text[i] # "Security") => facts.security_deposit = None

\* C6 witness: a text with a negated deposit statement and one with an amount
\* beside a negation
C6_Witness ==
    /\ pc = "done"
    /\ facts.security_deposit = <<"None">>
    /\ \E i \in 1..Len(text) : text[i] = "None"

\* C7: the square footage and the security deposit amount the pipeline yields
\* hold digits and "." only.
C7_NumericNormalized ==
    pc = "done" =>
        LET plain(v) == \A i \in 1..Len(v) : IsDigit(v[i]) \/ v[i] = "."
        IN /\ Truthy(facts.total_square_feet) => plain(facts.total_square_feet)
           /\ facts.security_deposit \notin {None, <<"None">>} => plain(facts.security_deposit)

\* C8: either handler answers 400, with nothing stored or parsed, whenever the
\* filename does not end in ".pdf" (in any case) and the content type is not
\* "application/pdf"; the upload handler answers 200 in every other case.
C8_PdfGate ==
    LET extension == EndsWithPdf(Lower(filename))
        media == content_type = <<"application/pdf">>
    IN /\ (rpc \notin {"idle", "start"} /\ ~extension /\ ~media) =>
            status = 400 /\ ~saved /\ pc = "idle" /\ rpc = "done"
       /\ (endpoint = "upload" /\ rpc = "done" /\ (extension \/ media)) => status = 200

\* C9: tenacity calls _call_openai_json at most 3 times and not again after a
\* call returned; when every call raised or the answer was not a JSON object,
\* the fallback record has no value, the request answers 200, and the body is
\* the formatted deterministic record with every deterministic value in it.
C9_FallbackDegrades ==
    /\ Len(attempts) <= 3
    /\ \A i \in 1..(Len(attempts) - 1) : attempts[i] = "raised"
    /\ llm_outcome = "exhausted" => Len(attempts) = 3 /\ \A i \in 1..3 : attempts[i] = "raised"
    /\ llm_outcome \in {"exhausted", "invalid"} =>
        /\ \A k \in ElevenKeys : Get(llm_facts, k) = None
        /\ rpc = "done" =>
            /\ status = 200
            /\ body = _format_facts_output(regex_facts)
            /\ \A k \in ElevenKeys : Truthy(regex_facts[k]) => body[k] = regex_facts[k]

\* C9 witness: a request answered after three failed calls, with a deterministic value kept
C9_Witness ==
    /\ rpc = "done"
    /\ llm_outcome = "exhausted"
    /\ Len(attempts) = 3
    /\ \E k \in ElevenKeys : Truthy(regex_facts[k]) /\ body[k] = regex_facts[k]

\* C10: once a strategy of _extract_address_and_suite has produced an address,
\* no later strategy changes it, and once one has produced a suite, no later
\* strategy changes it.
C10_FirstSuccessWins ==
    [][/\ Truthy(address) => address' = address
       /\ Truthy(suite) => suite' = suite]_vars
====
